---------------------------- MODULE Spec2Model ----------------------------
(***************************************************************************)
(* State-machine model of src/game.js ("Hitting Tiles"): the module-level  *)
(* game variables, the requestAnimationFrame loop, and the click, keydown, *)
(* difficulty-selector and restart-button handlers.                        *)
(*                                                                         *)
(* Numbers.  JavaScript numbers are doubles; the model uses fixed point:   *)
(*   lengths (x, y, w, h, height)      in 1/100 px                         *)
(*   speeds (tileSpeed, tile.speed)    in 1/100 px per second              *)
(*   timestamps, dt, flashTime         in ms                               *)
(*   lastSpawn, spawnInterval          in 1/1000 ms                        *)
(* A product with a decimal factor is truncated to that grid.              *)
(*                                                                         *)
(* Tile.color and Tile.id are random values that no code path reads back;  *)
(* they are left out of the tile records.                                  *)
(***************************************************************************)
EXTENDS Integers, Sequences, FiniteSets, TLC

VARIABLES
    tiles,          \* let tiles                 (game.js:164)
    lastSpawn,      \* let lastSpawn             (game.js:165)
    spawnInterval,  \* let spawnInterval         (game.js:166)
    tileSpeed,      \* let tileSpeed             (game.js:167)
    score,          \* let score                 (game.js:168)
    lives,          \* let lives                 (game.js:169)
    running,        \* let running               (game.js:170)
    lastTime,       \* let lastTime              (game.js:171)
    difficulty,     \* let difficulty            (game.js:174)
    flashTime,      \* let flashTime             (game.js:182)
    overlayDiff,    \* overlayDiff.value         (game.js:20)
    overlayShown,   \* overlay.style.display = 'flex'
    restartHidden,  \* restartBtn.classList contains 'hidden'
    finalScore,     \* finalScore.textContent    (game.js:352)
    pending,        \* gameLoop callbacks requested for the next frame
    frameQ,         \* callbacks of the current frame that have not run yet
    now,            \* timestamp of the current animation frame
    frames,         \* history: animation frames delivered so far
    inputs,         \* history: input events delivered so far
    endCalls,       \* history: endGame() calls since the last startGame()
    spawned,        \* history: spawnTile() calls since the last startGame()
    dropped,        \* history: tiles update() removed at the bottom since then
    penalties,      \* history: penalizeMiss() calls since then
    startLives,     \* history: lives as the last startGame() left them
    elapsed,        \* history: sum of the dt passed to update() since then (ms)
    sFixed,         \* history: spawnInterval has not changed since then
    ev              \* history: the last handler that ran, and what it met

vars == << tiles, lastSpawn, spawnInterval, tileSpeed, score, lives, running,
           lastTime, difficulty, flashTime, overlayDiff, overlayShown,
           restartHidden, finalScore, pending, frameQ, now, frames, inputs,
           endCalls,
           spawned, dropped, penalties, startLives, elapsed, sFixed, ev >>

---------------------------------------------------------------------------
(* Bounds of the exploration *)

MaxFrames == 4

MaxInputs == 2

MaxTiles == 3

MaxPending == 2

\* time between two animation frames (ms)
DtSet == {400, 950, 5000}

\* Math.random() draws of spawnTile, in percent
RandW == {0}
RandH == {50}
RandX == {0}
RandM == {0, 99}

\* values the difficulty selectors deliver; "zen" is not a profile
DiffNames == {"hard", "zen"}

---------------------------------------------------------------------------
(* Program constants *)

width == 800 * 100

height == 600 * 100

hitZoneHeight == 90 * 100

margin == 16 * 100

FlashMs == 220

MissFloor == 280 * 1000

KeyFloor == 380 * 1000

NegInf == -(2000 * 1000 * 1000)

difficultySettings ==
    [ easy   |-> [spawnInterval |-> 1300 * 1000, tileSpeed |-> 70 * 100,
                  lives |-> 5, minMult |-> 85,  maxMult |-> 115],
      normal |-> [spawnInterval |-> 900 * 1000,  tileSpeed |-> 110 * 100,
                  lives |-> 3, minMult |-> 95,  maxMult |-> 145],
      hard   |-> [spawnInterval |-> 650 * 1000,  tileSpeed |-> 160 * 100,
                  lives |-> 2, minMult |-> 105, maxMult |-> 190] ]

\* difficultySettings[mode] || difficultySettings.normal
Settings(mode) ==
    IF mode \in DOMAIN difficultySettings THEN difficultySettings[mode]
    ELSE difficultySettings.normal

Max(a, b) == IF a >= b THEN a ELSE b

Min(a, b) == IF a <= b THEN a ELSE b

\* Math.round of a length, to whole pixels
RoundPx(v) == ((v + 50) \div 100) * 100

\* Array.prototype.splice(i, 1), i counted from 1
RemoveAt(s, i) == SubSeq(s, 1, i - 1) \o SubSeq(s, i + 1, Len(s))

---------------------------------------------------------------------------
(* The program state as one record, so that handlers compose *)

State ==
    [ tiles |-> tiles, lastSpawn |-> lastSpawn, spawnInterval |-> spawnInterval,
      tileSpeed |-> tileSpeed, score |-> score, lives |-> lives,
      running |-> running, lastTime |-> lastTime, difficulty |-> difficulty,
      flashTime |-> flashTime, overlayDiff |-> overlayDiff,
      overlayShown |-> overlayShown, restartHidden |-> restartHidden,
      finalScore |-> finalScore, pending |-> pending, endCalls |-> endCalls,
      spawned |-> spawned, dropped |-> dropped, penalties |-> penalties,
      startLives |-> startLives, elapsed |-> elapsed ]

\* applyDifficulty(mode, resetCurrent)
applyDifficulty(s, mode, resetCurrent) ==
    LET d == Settings(mode) IN
    [s EXCEPT !.spawnInterval = d.spawnInterval,
              !.tileSpeed = d.tileSpeed,
              !.lives = IF resetCurrent THEN d.lives ELSE @]

\* endGame()
endGame(s) ==
    [s EXCEPT !.running = FALSE,
              !.finalScore = s.score,
              !.restartHidden = FALSE,
              !.overlayDiff = s.difficulty,
              !.overlayShown = TRUE,
              !.endCalls = @ + 1]

\* startGame()
startGame(s) ==
    LET a == applyDifficulty([s EXCEPT !.tiles = << >>, !.score = 0],
                             s.difficulty, TRUE) IN
    [a EXCEPT !.lastSpawn = 0,
              !.lastTime = 0,
              !.running = TRUE,
              !.overlayShown = FALSE,
              !.restartHidden = TRUE,
              !.pending = @ + 1,
              !.endCalls = 0,
              !.spawned = 0,
              !.dropped = 0,
              !.penalties = 0,
              !.startLives = a.lives,
              !.elapsed = 0]

\* the two escalations of penalizeMiss
MissSpeed(v) == (v * 106) \div 100

\* variant: the interval shrinks on every miss
MissIntervalAlways(si) == (si * 92) \div 100

MissInterval(si) == IF si > MissFloor THEN (si * 92) \div 100 ELSE si

\* variant: the run ends only below zero lives
penalizeMissLate(s) ==
    LET a == [s EXCEPT !.lives = @ - 1,
                       !.penalties = @ + 1,
                       !.flashTime = FlashMs,
                       !.tileSpeed = MissSpeed(@),
                       !.spawnInterval = MissInterval(@)] IN
    IF a.lives < 0 THEN endGame(a) ELSE a

\* penalizeMiss()
penalizeMiss(s) ==
    LET a == [s EXCEPT !.lives = @ - 1,
                       !.penalties = @ + 1,
                       !.flashTime = FlashMs,
                       !.tileSpeed = MissSpeed(@),
                       !.spawnInterval = MissInterval(@)] IN
    IF a.lives <= 0 THEN endGame(a) ELSE a


\* new Tile(x, w, h, speed): the constructor puts the tile above the field
Tile(x, w, h, speed) == [x |-> x, y |-> -h - 1000, w |-> w, h |-> h, speed |-> speed]

\* Tile.update(dt), dt in ms
TileUpdate(t, dt) == [t EXCEPT !.y = @ + (t.speed * dt) \div 1000]

\* Tile.isPointInside(px, py)
isPointInside(t, px, py) ==
    px >= t.x /\ px <= t.x + t.w /\ py >= t.y /\ py <= t.y + t.h

\* spawnTile(); r holds its four Math.random() draws, in percent
spawnTile(s, r) ==
    LET w == Max(40 * 100, Min(100 * 100, (width * (800 + 7 * r.w)) \div 10000))
        h == Max(24 * 100, RoundPx((w * (5000 + 60 * r.h)) \div 10000))
        x == margin + (r.x * (width - w - margin * 2)) \div 100
        d == Settings(s.difficulty)
        mult == d.minMult * 100 + r.m * (d.maxMult - d.minMult)
        speed == (s.tileSpeed * mult) \div 10000
    IN  [s EXCEPT !.tiles = Append(@, Tile(x, w, h, speed)),
                  !.spawned = @ + 1]

\* variant: the loop stops at the first tile it removes
RECURSIVE UpdateTilesBreak(_, _, _)
UpdateTilesBreak(s, i, dt) ==
    IF i < 1 THEN s
    ELSE LET t == TileUpdate(s.tiles[i], dt)
             moved == [s EXCEPT !.tiles[i] = t]
         IN  IF t.y > height
             THEN LET a == [moved EXCEPT !.tiles = RemoveAt(@, i),
                                         !.dropped = @ + 1,
                                         !.lives = @ - 1]
                  IN  IF a.lives <= 0 THEN endGame(a) ELSE a
             ELSE UpdateTilesBreak(moved, i - 1, dt)

\* the tile loop of update(): for (i = tiles.length - 1; i >= 0; i--), with
\* i counted from 1 here
RECURSIVE UpdateTiles(_, _, _)
UpdateTiles(s, i, dt) ==
    IF i < 1 THEN s
    ELSE LET t == TileUpdate(s.tiles[i], dt)
             moved == [s EXCEPT !.tiles[i] = t]
         IN  IF t.y > height
             THEN LET a == [moved EXCEPT !.tiles = RemoveAt(@, i),
                                         !.dropped = @ + 1,
                                         !.lives = @ - 1]
                      b == IF a.lives <= 0 THEN endGame(a) ELSE a
                  IN  UpdateTiles(b, i - 1, dt)
             ELSE UpdateTiles(moved, i - 1, dt)

\* the spawn test of update()
SpawnDue(s, dt) == s.lastSpawn + dt * 1000 > s.spawnInterval

\* variant: the overshoot is carried over instead of dropped
SpawnStepCarry(s, dt, r) ==
    LET a == [s EXCEPT !.lastSpawn = @ + dt * 1000] IN
    IF a.lastSpawn > a.spawnInterval
    THEN spawnTile([a EXCEPT !.lastSpawn = @ - a.spawnInterval], r)
    ELSE a

\* variant: a tile is spawned as soon as any time has accumulated
SpawnStepAny(s, dt, r) ==
    LET a == [s EXCEPT !.lastSpawn = @ + dt * 1000] IN
    IF a.lastSpawn > 0
    THEN spawnTile([a EXCEPT !.lastSpawn = 0], r)
    ELSE a

\* the spawn step of update()
SpawnStep(s, dt, r) ==
    LET a == [s EXCEPT !.lastSpawn = @ + dt * 1000] IN
    IF a.lastSpawn > a.spawnInterval
    THEN spawnTile([a EXCEPT !.lastSpawn = 0], r)
    ELSE a

\* update(dt)
update(s, dt, r) ==
    LET a == SpawnStep(s, dt, r) IN
    UpdateTiles([a EXCEPT !.elapsed = @ + dt], Len(a.tiles), dt)

\* the dt gameLoop(ts) derives
LoopDt(s, ts) == IF s.lastTime = 0 THEN 0 ELSE ts - s.lastTime

\* gameLoop(ts) when running: update, flash countdown, and the request for
\* the next frame
gameLoop(s, ts, r) ==
    LET dt == LoopDt(s, ts)
        a == update([s EXCEPT !.lastTime = ts], dt, r)
    IN  [a EXCEPT !.flashTime = IF @ > 0 THEN Max(0, @ - dt) ELSE @,
                  !.pending = @ + 1]

\* variant: the scan runs from the oldest tile
ClickScanUp(ts, i, px, py) ==
    LET Up[j \in 1..(Len(ts) + 1)] ==
            IF j > Len(ts) THEN 0
            ELSE IF isPointInside(ts[j], px, py) THEN j
            ELSE Up[j + 1]
    IN  Up[1]

\* the click handler's scan: the largest index whose tile holds the point,
\* 0 if there is none
RECURSIVE ClickScan(_, _, _, _)
ClickScan(ts, i, px, py) ==
    IF i < 1 THEN 0
    ELSE IF isPointInside(ts[i], px, py) THEN i
    ELSE ClickScan(ts, i - 1, px, py)

\* variant: a hit scores and leaves the tile on the field
onClickKeep(s, px, py) ==
    LET i == ClickScan(s.tiles, Len(s.tiles), px, py) IN
    IF i >= 1
    THEN [s EXCEPT !.score = @ + 1]
    ELSE penalizeMiss(s)

\* canvas 'click' handler, while running
onClick(s, px, py) ==
    LET i == ClickScan(s.tiles, Len(s.tiles), px, py) IN
    IF i >= 1
    THEN [s EXCEPT !.tiles = RemoveAt(@, i), !.score = @ + 1]
    ELSE penalizeMiss(s)

\* the hit-zone test of the keydown handler
InHitZone(t) == t.y + t.h >= height - hitZoneHeight /\ t.y <= height

\* variant: every tile in the hit zone replaces the candidate
RECURSIVE KeyScanLast(_, _, _, _)
KeyScanLast(ts, i, bestY, candidateIndex) ==
    IF i > Len(ts) THEN candidateIndex
    ELSE IF InHitZone(ts[i])
    THEN KeyScanLast(ts, i + 1, ts[i].y + ts[i].h, i)
    ELSE KeyScanLast(ts, i + 1, bestY, candidateIndex)

\* the keydown handler's scan: for (i = 0; i < tiles.length; i++) keeping
\* the first tile with the strictly greatest y + h; 0 if there is none
RECURSIVE KeyScan(_, _, _, _)
KeyScan(ts, i, bestY, candidateIndex) ==
    IF i > Len(ts) THEN candidateIndex
    ELSE IF InHitZone(ts[i]) /\ ts[i].y + ts[i].h > bestY
    THEN KeyScan(ts, i + 1, ts[i].y + ts[i].h, i)
    ELSE KeyScan(ts, i + 1, bestY, candidateIndex)

\* the two escalations of a key hit
KeySpeed(v) == (v * 1002) \div 1000

KeyInterval(si) == IF si > KeyFloor THEN (si * 998) \div 1000 ELSE si

\* window 'keydown' handler for Space / ArrowDown, while running
onHitKey(s) ==
    LET i == KeyScan(s.tiles, 1, NegInf, 0) IN
    IF i >= 1
    THEN [s EXCEPT !.tiles = RemoveAt(@, i),
                   !.score = @ + 1,
                   !.tileSpeed = KeySpeed(@),
                   !.spawnInterval = KeyInterval(@)]
    ELSE penalizeMiss(s)

\* a selector change that resets the lives in every state
onDiffChangeReset(s, d) == applyDifficulty([s EXCEPT !.difficulty = d], d, TRUE)

\* diffSelect 'change' handler
onDiffChange(s, d) ==
    LET a == [s EXCEPT !.difficulty = d] IN
    IF ~a.running THEN applyDifficulty(a, d, TRUE)
    ELSE [a EXCEPT !.spawnInterval = Settings(d).spawnInterval,
                   !.tileSpeed = Settings(d).tileSpeed]

\* a restart that ignores the overlay's selector
onRestartKeep(s) ==
    LET a == applyDifficulty([s EXCEPT !.restartHidden = TRUE],
                             s.difficulty, TRUE)
    IN  startGame([a EXCEPT !.overlayShown = FALSE])

\* restartBtn 'click' handler
onRestart(s) ==
    LET chosen == IF s.overlayDiff # "" THEN s.overlayDiff ELSE s.difficulty
        a == applyDifficulty([s EXCEPT !.restartHidden = TRUE,
                                       !.difficulty = chosen], chosen, TRUE)
    IN  startGame([a EXCEPT !.overlayShown = FALSE])

---------------------------------------------------------------------------
(* Inputs *)

Draws == [w : RandW, h : RandH, x : RandX, m : RandM]

NoDraw == [w |-> -1, h |-> -1, x |-> -1, m |-> -1]

\* a point of the canvas that no tile can cover (tiles end left of
\* width - margin)
FarPoint == [px |-> width - 1000, py |-> 100 * 100]

\* click positions: the bottom-right corner of every tile (the last point
\* isPointInside accepts) and the empty point
ClickPoints ==
    {[px |-> tiles[i].x + tiles[i].w, py |-> tiles[i].y + tiles[i].h] :
        i \in 1..Len(tiles)}
    \cup {FarPoint}

\* what the history variable ev records of a handler run: the handler, the
\* dt of an update, the click position, the draws of a spawn, a count k
\* (click: tiles holding the point; key: tiles in the hit zone; update:
\* tiles removed at the bottom) and the spawnInterval the handler found
Event(op, dt, px, py, r, k) ==
    [op |-> op, dt |-> dt, px |-> px, py |-> py, r |-> r, k |-> k,
     si |-> spawnInterval]

---------------------------------------------------------------------------
(* Actions: one per event the browser delivers *)

\* the handler's result s becomes the next state
Commit(s, e) ==
    /\ tiles' = s.tiles
    /\ lastSpawn' = s.lastSpawn
    /\ spawnInterval' = s.spawnInterval
    /\ tileSpeed' = s.tileSpeed
    /\ score' = s.score
    /\ lives' = s.lives
    /\ running' = s.running
    /\ lastTime' = s.lastTime
    /\ difficulty' = s.difficulty
    /\ flashTime' = s.flashTime
    /\ overlayDiff' = s.overlayDiff
    /\ overlayShown' = s.overlayShown
    /\ restartHidden' = s.restartHidden
    /\ finalScore' = s.finalScore
    /\ pending' = s.pending
    /\ endCalls' = s.endCalls
    /\ spawned' = s.spawned
    /\ dropped' = s.dropped
    /\ penalties' = s.penalties
    /\ startLives' = s.startLives
    /\ elapsed' = s.elapsed
    /\ sFixed' = IF e.op \in {"start", "restart"} THEN TRUE
                 ELSE sFixed /\ s.spawnInterval = spawnInterval
    /\ ev' = e

\* one gameLoop(ts) callback; s is the state it starts from, r the draws
\* spawnTile makes if the call spawns.  A spawn that would take tiles
\* past MaxTiles is outside the bounds.
Callback(s, ts, r) ==
    IF ~s.running
    THEN Commit(s, Event("loopIdle", 0, 0, 0, NoDraw, 0))
    ELSE LET dt == LoopDt(s, ts)
             due == SpawnDue(s, dt)
             res == gameLoop(s, ts, r)
         IN  /\ due => Len(s.tiles) < MaxTiles
             /\ Commit(res, Event("update", dt, 0, 0,
                                  IF due THEN r ELSE NoDraw,
                                  Len(s.tiles) + (IF due THEN 1 ELSE 0)
                                      - Len(res.tiles)))

\* a new animation frame: the browser takes the requested callbacks and
\* runs the first of them
Frame(delta, r) ==
    /\ frameQ = 0
    /\ pending > 0
    /\ now' = now + delta
    /\ frames' = frames + 1
    /\ frameQ' = pending - 1
    /\ UNCHANGED inputs
    /\ Callback([State EXCEPT !.pending = 0], now + delta, r)

\* the next callback of the same frame, with the same timestamp
FrameRest(r) ==
    /\ frameQ > 0
    /\ frameQ' = frameQ - 1
    /\ UNCHANGED << now, frames, inputs >>
    /\ Callback(State, now, r)

\* an input event is delivered between frames
Input ==
    /\ frameQ = 0
    /\ inputs' = inputs + 1
    /\ UNCHANGED << now, frames, frameQ >>

\* a click handler without the test of running
ClickAlways(px, py) ==
    /\ Input
    /\ Commit(onClick(State, px, py),
              Event(IF running THEN "click" ELSE "clickIdle", 0, px, py,
                    NoDraw,
                    Cardinality({i \in 1..Len(tiles) :
                                   isPointInside(tiles[i], px, py)})))

\* canvas 'click' handler
Click(px, py) ==
    /\ Input
    /\ IF ~running
       THEN Commit(State, Event("clickIdle", 0, px, py, NoDraw, 0))
       ELSE Commit(onClick(State, px, py),
                   Event("click", 0, px, py, NoDraw,
                         Cardinality({i \in 1..Len(tiles) :
                                        isPointInside(tiles[i], px, py)})))

HitKey ==
    /\ Input
    /\ IF ~running
       THEN Commit(State, Event("keyIdle", 0, 0, 0, NoDraw, 0))
       ELSE Commit(onHitKey(State),
                   Event("key", 0, 0, 0, NoDraw,
                         Cardinality({i \in 1..Len(tiles) :
                                        InHitZone(tiles[i])})))

\* keydown 'Enter' while not running
EnterKey ==
    /\ Input
    /\ ~running
    /\ pending < MaxPending
    /\ Commit(startGame(State), Event("start", 0, 0, 0, NoDraw, 0))

DiffChange(d) ==
    /\ Input
    /\ d # difficulty
    /\ Commit(onDiffChange(State, d), Event("diff", 0, 0, 0, NoDraw, 0))

\* the player picks a value in the game-over overlay's selector
OverlayChoose(d) ==
    /\ Input
    /\ overlayShown
    /\ d # overlayDiff
    /\ Commit([State EXCEPT !.overlayDiff = d],
              Event("overlay", 0, 0, 0, NoDraw, 0))

\* click on the restart button, which is shown from endGame to startGame
RestartClick ==
    /\ Input
    /\ ~restartHidden
    /\ pending < MaxPending
    /\ Commit(onRestart(State), Event("restart", 0, 0, 0, NoDraw, 0))

\* the state init() leaves: the declarations' values, then startGame()
Init ==
    /\ tiles = << >>
    /\ lastSpawn = 0
    /\ spawnInterval = difficultySettings.normal.spawnInterval
    /\ tileSpeed = difficultySettings.normal.tileSpeed
    /\ score = 0
    /\ lives = difficultySettings.normal.lives
    /\ running = TRUE
    /\ lastTime = 0
    /\ difficulty = "normal"
    /\ flashTime = 0
    /\ overlayDiff = "normal"
    /\ overlayShown = FALSE
    /\ restartHidden = TRUE
    /\ finalScore = 0
    /\ pending = 1
    /\ frameQ = 0
    /\ now = 0
    /\ frames = 0
    /\ inputs = 0
    /\ endCalls = 0
    /\ spawned = 0
    /\ dropped = 0
    /\ penalties = 0
    /\ startLives = difficultySettings.normal.lives
    /\ elapsed = 0
    /\ sFixed = TRUE
    /\ ev = [op |-> "start", dt |-> 0, px |-> 0, py |-> 0, r |-> NoDraw,
             k |-> 0, si |-> difficultySettings.normal.spawnInterval]

\* every event, in any order, within the bounds
Next ==
    \/ \E delta \in DtSet, r \in Draws : frames < MaxFrames /\ Frame(delta, r)
    \/ \E r \in Draws : FrameRest(r)
    \/ \E p \in ClickPoints : inputs < MaxInputs /\ Click(p.px, p.py)
    \/ inputs < MaxInputs /\ HitKey
    \/ inputs < MaxInputs /\ EnterKey
    \/ \E d \in DiffNames : inputs < MaxInputs /\ DiffChange(d)
    \/ \E d \in DiffNames : inputs < MaxInputs /\ OverlayChoose(d)
    \/ inputs < MaxInputs /\ RestartClick

Spec == Init /\ [][Next]_vars

---------------------------------------------------------------------------
(* A long run.  The escalation floors lie hundreds of key hits away from   *)
(* a start, out of reach of Spec's bounds.  SpecEsc follows one player     *)
(* through the same handlers: the player loses the first run by clicking   *)
(* the empty field, picks "easy" in the overlay and restarts (5 lives),    *)
(* switches the selector to "hard" while running, hits every tile with the *)
(* key as it enters the hit zone until the key escalation stops, and from  *)
(* then on clicks the empty field until the run is over.                   *)

\* frame times of the long run; each tile is spawned by one frame and the
\* player hits it before the next
DtEsc == {2250, 2800, 3500}

DrawEsc == [w |-> 0, h |-> 50, x |-> 0, m |-> 0]

\* a frame of that length spawns a tile and carries it into the hit zone
LandsInZone(delta) ==
    LET res == gameLoop([State EXCEPT !.pending = 0], now + delta, DrawEsc) IN
    /\ res.lives = lives
    /\ \E i \in 1..Len(res.tiles) : InHitZone(res.tiles[i])

EscFrame(delta) ==
    /\ \/ ~running
       \/ /\ difficulty = "hard"
          /\ tiles = << >>
          /\ \/ lastTime = 0
             \/ /\ spawnInterval > KeyFloor
                /\ LandsInZone(delta)
                /\ \A d \in DtEsc : d < delta => ~LandsInZone(d)
    /\ Frame(delta, DrawEsc)

EscMiss ==
    /\ running
    /\ tiles = << >>
    /\ difficulty = "normal" \/ (difficulty = "hard" /\ spawnInterval <= KeyFloor)
    /\ Click(FarPoint.px, FarPoint.py)

EscHit ==
    /\ running
    /\ \E i \in 1..Len(tiles) : InHitZone(tiles[i])
    /\ HitKey

EscChoose ==
    /\ difficulty = "normal"
    /\ OverlayChoose("easy")

EscRestart ==
    /\ difficulty = "normal"
    /\ overlayDiff = "easy"
    /\ RestartClick

EscSwitch ==
    /\ running
    /\ difficulty = "easy"
    /\ DiffChange("hard")

NextEsc ==
    \/ \E delta \in DtEsc : EscFrame(delta)
    \/ FrameRest(DrawEsc)
    \/ EscMiss
    \/ EscHit
    \/ EscChoose
    \/ EscRestart
    \/ EscSwitch

SpecEsc == Init /\ [][NextEsc]_vars

---------------------------------------------------------------------------
(* Events the handlers accept whatever the page shows.  Spec delivers a    *)
(* restart click only while the button is visible and frame timestamps     *)
(* only in increasing order.  Neither is checked by the code: the restart  *)
(* handler and startGame() do not look at running or at the button's       *)
(* class, and gameLoop() does not compare ts with lastTime.  SpecOpen adds *)
(* these events to those of Spec.                                          *)

\* how far a frame timestamp may fall behind its predecessor (ms)
BackSet == {300}

\* restartBtn 'click' handler run while the game is running
RestartRunning ==
    /\ Input
    /\ running
    /\ pending < MaxPending
    /\ Commit(onRestart(State), Event("restart", 0, 0, 0, NoDraw, 0))

\* keydown 'Enter' while running: the handler starts nothing, and the key
\* is neither Space nor ArrowDown
EnterRunning ==
    /\ Input
    /\ running
    /\ Commit(State, Event("enterIdle", 0, 0, 0, NoDraw, 0))

\* a frame whose timestamp is smaller than the previous frame's
FrameBack(back, r) ==
    /\ now - back >= 0
    /\ Frame(0 - back, r)

NextOpen ==
    \/ Next
    \/ inputs < MaxInputs /\ RestartRunning
    \/ inputs < MaxInputs /\ EnterRunning
    \/ \E back \in BackSet, r \in Draws :
           frames < MaxFrames /\ FrameBack(back, r)

SpecOpen == Init /\ [][NextOpen]_vars

---------------------------------------------------------------------------
(* Properties.  A property of one handler run is an action property: ev'   *)
(* names the handler that made the step, the unprimed variables are the    *)
(* state it found, the primed ones the state it left.                      *)

\* tiles of the sequence ts that hold the point (px, py)
Holding(ts, px, py) ==
    {i \in 1..Len(ts) : /\ ts[i].x <= px /\ px <= ts[i].x + ts[i].w
                        /\ ts[i].y <= py /\ py <= ts[i].y + ts[i].h}

\* tiles of the sequence ts in the hit zone of the key
Zone(ts) ==
    {i \in 1..Len(ts) : /\ ts[i].y + ts[i].h >= height - hitZoneHeight
                        /\ ts[i].y <= height}

Without(ts, i) == [j \in 1..(Len(ts) - 1) |-> IF j < i THEN ts[j] ELSE ts[j + 1]]

MaxOf(S) == CHOOSE i \in S : \A j \in S : j <= i

OnField(t) == t.y <= height

\* C1: in every reachable state lives >= 0, and lives = 0 implies that the
\* game is not running.
C1_LivesNonNegative == lives >= 0 /\ (lives = 0 => ~running)

\* C2: within one run endGame is performed exactly once, when lives first
\* becomes <= 0: never while the run is on, once when it is over.
C2_EndGameOnce == IF running THEN endCalls = 0 ELSE endCalls = 1

\* C3: an update(dt) call removes exactly the tiles whose y exceeds height
\* after their motion step, each once and at the cost of one life, removes
\* no other tile, and leaves no tile with y > height.
C3_MissAccounting ==
    [][ev'.op = "update" =>
          LET dt == ev'.dt
              all == IF ev'.r = NoDraw THEN tiles
                     ELSE spawnTile(State, ev'.r).tiles
              moved == [i \in 1..Len(all) |->
                          [all[i] EXCEPT !.y = @ + (all[i].speed * dt) \div 1000]]
              kept == SelectSeq(moved, OnField)
          IN  /\ tiles' = kept
              /\ lives' = lives - (Len(moved) - Len(kept))
              /\ \A i \in 1..Len(tiles') : tiles'[i].y <= height]_vars

\* an update removed one tile at the bottom and kept another
C3_Witness == ev.op = "update" /\ ev.k >= 1 /\ Len(tiles) >= 1

\* C4: while running, a click on a point inside one or more tiles removes
\* exactly the most recently spawned of them, adds 1 to score and leaves
\* lives, tileSpeed, spawnInterval and every other tile as they were.
C4_ClickHit ==
    [][(ev'.op = "click" /\ Holding(tiles, ev'.px, ev'.py) # {}) =>
          /\ tiles' = Without(tiles, MaxOf(Holding(tiles, ev'.px, ev'.py)))
          /\ score' = score + 1
          /\ lives' = lives
          /\ tileSpeed' = tileSpeed
          /\ spawnInterval' = spawnInterval]_vars

\* a click hit a point that two tiles covered
C4_Witness == ev.op = "click" /\ ev.k >= 2

\* C5: while running, a click that hits no tile, or a hit key with no tile
\* in the hit zone, takes exactly one life, sets flashTime to its fixed
\* duration, removes no tile and leaves score; if lives is then <= 0 the
\* game stops running in the same call.
C5_MissPenalty ==
    [][(\/ ev'.op = "click" /\ Holding(tiles, ev'.px, ev'.py) = {}
        \/ ev'.op = "key" /\ Zone(tiles) = {}) =>
          /\ lives' = lives - 1
          /\ flashTime' = FlashMs
          /\ FlashMs > 0
          /\ tiles' = tiles
          /\ score' = score
          /\ lives' <= 0 => ~running']_vars

\* a missed click took the last life
C5_Witness ==
    ev.op = "click" /\ ev.k = 0 /\ lives = 0 /\ ~running /\ flashTime = FlashMs

C7_OneSpawnPerUpdate ==
    [][ev'.op = "update" =>
          LET acc == lastSpawn + ev'.dt * 1000 IN
          /\ Len(tiles') <= Len(tiles) + 1
          /\ IF acc > spawnInterval
             THEN /\ spawned' = spawned + 1
                  /\ lastSpawn' = 0
                  /\ Len(tiles') + ev'.k = Len(tiles) + 1
             ELSE /\ spawned' = spawned
                  /\ lastSpawn' = acc
                  /\ Len(tiles') + ev'.k = Len(tiles)
          /\ (/\ tiles = << >> /\ lastSpawn = 0 /\ ev'.dt = 950
              /\ spawnInterval = 900 * 1000 /\ difficulty = "normal") =>
                 (Len(tiles') = 1 /\ lives' = lives)]_vars

\* an update with a dt of several spawn intervals has spawned
C7_Witness ==
    /\ ev.op = "update" /\ ev.r # NoDraw /\ lastSpawn = 0
    /\ ev.dt * 1000 > 3 * spawnInterval

\* C8 as stated: with spawnInterval fixed since the start, the number of
\* tiles spawned is within 1 of floor(T / S).
C8_SpawnCountWithinOne ==
    sFixed =>
        LET q == (elapsed * 1000) \div spawnInterval IN
        spawned >= q - 1 /\ spawned <= q + 1

\* C8 amended: with spawnInterval fixed since the start, the number of
\* tiles spawned is at most floor(T / S); every spawn uses up more than S.
C8_SpawnCountAtMost ==
    sFixed =>
        /\ spawned <= (elapsed * 1000) \div spawnInterval
        /\ spawned > 0 => spawned * spawnInterval < elapsed * 1000

\* two tiles were spawned in a time that holds more than four intervals
C8_Witness ==
    sFixed /\ spawned = 2 /\ (elapsed * 1000) \div spawnInterval >= 4

\* the step is a miss penalty: a click on no tile or a key with no tile in
\* the hit zone, while running
IsMissPenalty ==
    \/ ev'.op = "click" /\ Holding(tiles, ev'.px, ev'.py) = {}
    \/ ev'.op = "key" /\ Zone(tiles) = {}

\* C9: the spawn interval never falls below the miss-penalty floor of
\* 280 ms.
C9_IntervalFloor == spawnInterval >= 280 * 1000

\* C10: a miss penalty strictly raises tileSpeed; it strictly lowers
\* spawnInterval while that is above 280 ms and leaves it as it is once it
\* is at or below 280 ms.
C10_Escalation ==
    [][IsMissPenalty =>
          /\ tileSpeed' > tileSpeed
          /\ spawnInterval > 280 * 1000 => spawnInterval' < spawnInterval
          /\ spawnInterval <= 280 * 1000 => spawnInterval' = spawnInterval]_vars

\* a miss penalty found spawnInterval at or below 280 ms
C10_Witness ==
    /\ ev.op = "click" /\ ev.k = 0
    /\ ev.si <= 280 * 1000 /\ spawnInterval = ev.si

\* C11: a key hit multiplies tileSpeed by 1.002 and spawnInterval by 0.998
\* with a floor of 380 ms: it never takes spawnInterval from 380 ms or more
\* to less than 380 ms and leaves it when it is at or below 380 ms; a click
\* hit changes neither.
C11_KeyHitEscalation ==
    [][/\ (ev'.op = "key" /\ Zone(tiles) # {}) =>
             /\ tileSpeed' = (tileSpeed * 1002) \div 1000
             /\ spawnInterval >= 380 * 1000 => spawnInterval' >= 380 * 1000
             /\ spawnInterval <= 380 * 1000 => spawnInterval' = spawnInterval
       /\ (ev'.op = "click" /\ Holding(tiles, ev'.px, ev'.py) # {}) =>
             /\ tileSpeed' = tileSpeed
             /\ spawnInterval' = spawnInterval]_vars

\* C12: a start or restart request that arrives while running is TRUE
\* (Enter key, restart button click, startGame) changes none of tiles, score,
\* lives, spawnInterval, tileSpeed, lastSpawn and schedules no further
\* gameLoop callback.
C12_StartWhileRunning ==
    [][(running /\ ev'.op \in {"start", "restart", "enterIdle"}) =>
           UNCHANGED << tiles, score, lives, spawnInterval, tileSpeed,
                        lastSpawn, pending >>]_vars

C13_Witness_Unknown ==
    /\ ev.op = "restart"
    /\ running
    /\ difficulty = "zen"

\* C14: while running is FALSE a click and a Space/ArrowDown press change
\* none of tiles, score, lives, spawnInterval, tileSpeed, flashTime, running.
C14_IdleInput ==
    [][(~running /\ ev'.op \in {"click", "clickIdle", "key", "keyIdle"}) =>
           UNCHANGED << tiles, score, lives, spawnInterval, tileSpeed,
                        flashTime, running >>]_vars

\* a click on a tile that is still on the field after the game is over
C14_Witness ==
    /\ ~running
    /\ ev.op = "clickIdle"
    /\ Holding(tiles, ev.px, ev.py) # {}

\* C15: whatever the frame timestamps, also when one is smaller than its
\* predecessor, the dt gameLoop passes to update is >= 0 and is 0 on the
\* first tick after a start or restart, and no tile is higher after the
\* update than before it.
C15_DtNonNegative ==
    [][ev'.op = "update" =>
           /\ ev'.dt >= 0
           /\ lastTime = 0 => ev'.dt = 0
           /\ \A j \in 1..Len(tiles') :
                  \/ ev'.r # NoDraw /\ j = Len(tiles')
                  \/ \E i \in 1..Len(tiles) :
                         /\ [tiles'[j] EXCEPT !.y = 0]
                                = [tiles[i] EXCEPT !.y = 0]
                         /\ tiles'[j].y >= tiles[i].y]_vars

\* C16: an update(dt) call that removes a tile at the bottom boundary
\* leaves flashTime at its fixed positive duration, as the miss penalty
\* does.  The formula looks at the state update() returns, before gameLoop
\* counts the timer down.
C16_BottomMissAlarm ==
    [][(ev'.op = "update" /\ ev'.k >= 1) =>
           update(State, ev'.dt, ev'.r).flashTime = 220]_vars

\* C17: at most one gameLoop callback is scheduled at any time, whatever
\* the order of frames, inputs, game over and restart.
C17_OneCallback == pending + frameQ <= 1

\* C18: from the step that sets running to FALSE until the next start or
\* restart the simulation is frozen: no frame callback, click or key press
\* spawns, moves or removes a tile or changes lives or score, and the
\* update call that ends the game removes no tile and takes no life after
\* the one that ended it.
C18_FrozenInGameOver ==
    [][/\ (~running /\ ev'.op \in {"update", "loopIdle", "click",
                                   "clickIdle", "key", "keyIdle"}) =>
             UNCHANGED << tiles, lives, score, spawned >>
       /\ (running /\ ~running' /\ ev'.op = "update") =>
             /\ ev'.k = lives
             /\ lives' = 0]_vars

\* the starting values of the profile a difficulty name selects
StartOf(d) ==
    IF d = "easy" THEN [si |-> 1300 * 1000, sp |-> 70 * 100, lv |-> 5]
    ELSE IF d = "hard" THEN [si |-> 650 * 1000, sp |-> 160 * 100, lv |-> 2]
    ELSE [si |-> 900 * 1000, sp |-> 110 * 100, lv |-> 3]

\* C19 as stated: while running is TRUE no event, a change of the difficulty
\* selector included, lowers tileSpeed, raises spawnInterval or changes the
\* active difficulty name.
C19_Permanent ==
    [][running =>
           /\ tileSpeed' >= tileSpeed
           /\ spawnInterval' <= spawnInterval
           /\ difficulty' = difficulty]_vars

\* C19, amended: while running is TRUE no frame update, click or key press
\* lowers tileSpeed, raises spawnInterval or changes the difficulty name; a
\* change of the difficulty selector sets the name and puts spawnInterval
\* and tileSpeed back to the selected profile's starting values, leaving
\* lives as they are.
C19_PermanentButSelector ==
    [][running =>
           IF ev'.op = "diff"
           THEN /\ spawnInterval' = StartOf(difficulty').si
                /\ tileSpeed' = StartOf(difficulty').sp
                /\ lives' = lives
                /\ running'
           ELSE /\ tileSpeed' >= tileSpeed
                /\ spawnInterval' <= spawnInterval
                /\ difficulty' = difficulty]_vars

\* a selector change during a run has undone an escalation
C19_Witness ==
    /\ ev.op = "diff"
    /\ running
    /\ ev.si < spawnInterval
    /\ lives < 3

\* C20 as stated: in every state since the last start, tiles spawned =
\* score + tiles removed at the bottom + Len(tiles), and lives = starting
\* lives of the run - tiles removed at the bottom - miss penalties; score
\* changes only by +1, in a click or key hit that removes exactly one tile.
C20_Accounting ==
    [][/\ spawned' = score' + dropped' + Len(tiles')
       /\ lives' = startLives' - dropped' - penalties'
       /\ (score' # score /\ ev'.op \notin {"start", "restart"}) =>
             /\ score' = score + 1
             /\ ev'.op \in {"click", "key"}
             /\ Len(tiles') = Len(tiles) - 1
             /\ dropped' = dropped]_vars

\* C20, amended: the equation for lives holds while running is TRUE and in
\* the state left by the event that ended the run; the rest as stated.
C20_AccountingOfRun ==
    [][/\ spawned' = score' + dropped' + Len(tiles')
       /\ (running' \/ ev'.op \in {"update", "click", "key"}) =>
             lives' = startLives' - dropped' - penalties'
       /\ (score' # score /\ ev'.op \notin {"start", "restart"}) =>
             /\ score' = score + 1
             /\ ev'.op \in {"click", "key"}
             /\ Len(tiles') = Len(tiles) - 1
             /\ dropped' = dropped]_vars

\* a run with a hit, a tile lost at the bottom, a miss penalty and a tile
\* on the field
C20_Witness ==
    /\ running
    /\ score >= 1
    /\ dropped >= 1
    /\ penalties >= 1
    /\ Len(tiles) >= 1

===========================================================================
